---- MODULE Spec2Model ----
(***************************************************************************)
(* Replicator-dynamics core of the energy-mix simulator:                   *)
(*   src/src/model.py   replicator_rhs                                     *)
(*   src/src/solver.py  rk4_step, integrate                                *)
(*   src/src/simulations.py  the scenario calls sharing x0_spain           *)
(*                                                                         *)
(* Spec and SpecLive run one call of integrate, SpecRhs one evaluation of  *)
(* replicator_rhs, SpecRk4 one call of rk4_step, SpecCalls the calls two   *)
(* threads make with the shared x0_spain.                                  *)
(*                                                                         *)
(* Numbers.  A float is modelled by an exact rational <<n, d>> in lowest   *)
(* terms with d > 0; a non-finite float has d = 0 (<<0, 0>> is NaN).       *)
(* Arithmetic is the real-number arithmetic the doubles approximate, so    *)
(* "equal" below stands for "equal up to rounding" in the program.  The    *)
(* one place where double rounding changes a discrete outcome, the length  *)
(* of numpy.arange, is modelled by what the doubles give (DoubleRoundsUp). *)
(***************************************************************************)
EXTENDS Integers, Sequences, FiniteSets, TLC

VARIABLES
    pc,         \* position of the call
    f,          \* integrate's argument f: the dynamics function
    x0,         \* the caller's array passed as x0 (its current contents)
    x0_call,    \* contents of that array when the call was made
    t0, t_end, dt, params,
    validate,   \* the keyword argument validate the caller passes, or "absent"
    t_values, x_values,
    x,          \* integrate's local x
    x_alias,    \* whether local x is the caller's x0 array itself
    i,          \* 1-based position of the for loop in t_values
    fevals,     \* calls of f made so far
    exc,        \* the exception raised by the call, or "none"
    result,     \* what the call returned: <<t_values, x_values>>, or NoResult
    t,          \* the time handed to the dynamics function
    dxdt,       \* replicator_rhs's return value
    x_next,     \* the array the last rk4_step returned
    other,      \* the call of the other thread, suspended (see Switch)
    started     \* calls of integrate made so far

vars == <<pc, f, x0, x0_call, t0, t_end, dt, params, validate, t_values,
          x_values, x, x_alias, i, fevals, exc, result, t, dxdt, x_next, other,
          started>>

---------------------------------------------------------------------------
(* Floats as rationals *)

\* F applied to the value of e, e being evaluated once: numpy computes the
\* operands of an operation before the operation
With(e, F(_)) == CHOOSE r \in {F(val) : val \in {e}} : TRUE

Abs(a) == IF a < 0 THEN -a ELSE a

\* Euclid's algorithm on naturals
GCD(a, b) ==
    LET gcd[p \in Nat \X Nat] ==
            IF p[2] = 0 THEN p[1] ELSE gcd[<<p[2], p[1] % p[2]>>]
    IN  gcd[<<a, b>>]

NaN == <<0, 0>>

IsFinite(a) == a[2] # 0

\* n/d in lowest terms, d # 0
Rat(n, d) ==
    With(<<n, d, GCD(Abs(n), Abs(d))>>, LAMBDA p :
        LET s == IF p[2] < 0 THEN -1 ELSE 1
        IN  <<s * (p[1] \div p[3]), s * (p[2] \div p[3])>>)

Zero == Rat(0, 1)
One == Rat(1, 1)
Whole(n) == Rat(n, 1)

RAdd(a, b) ==
    IF ~IsFinite(a) \/ ~IsFinite(b) THEN NaN
    ELSE With(GCD(a[2], b[2]), LAMBDA g :
             Rat(a[1] * (b[2] \div g) + b[1] * (a[2] \div g), (a[2] \div g) * b[2]))

RNeg(a) == <<-a[1], a[2]>>

RSub(a, b) == RAdd(a, RNeg(b))

RMul(a, b) ==
    IF ~IsFinite(a) \/ ~IsFinite(b) THEN NaN
    ELSE With(<<GCD(Abs(a[1]), b[2]), GCD(Abs(b[1]), a[2])>>, LAMBDA g :
             <<(a[1] \div g[1]) * (b[1] \div g[2]), (a[2] \div g[2]) * (b[2] \div g[1])>>)

Sign(n) == IF n < 0 THEN -1 ELSE IF n > 0 THEN 1 ELSE 0

\* IEEE division: 0/0 is NaN, a/0 is an infinity of a's sign
RDiv(a, b) ==
    IF ~IsFinite(a) \/ ~IsFinite(b) THEN NaN
    ELSE IF b[1] = 0 THEN <<Sign(a[1]), 0>>
    ELSE RMul(a, IF b[1] < 0 THEN <<-b[2], -b[1]>> ELSE <<b[2], b[1]>>)

\* comparisons are false on NaN
RLt(a, b) == IsFinite(a) /\ IsFinite(b) /\ RSub(a, b)[1] < 0
RLe(a, b) == IsFinite(a) /\ IsFinite(b) /\ RSub(a, b)[1] <= 0

\* ceil of a finite rational
Ceil(a) == -((-a[1]) \div a[2])

---------------------------------------------------------------------------
(* numpy arrays of floats: sequences, operated on elementwise *)

VAdd(u, v) ==
    With(<<u, v>>, LAMBDA p : [k \in 1..Len(p[1]) |-> RAdd(p[1][k], p[2][k])])
VMul(u, v) ==
    With(<<u, v>>, LAMBDA p : [k \in 1..Len(p[1]) |-> RMul(p[1][k], p[2][k])])
VScale(c, v) ==
    With(<<c, v>>, LAMBDA p : [k \in 1..Len(p[2]) |-> RMul(p[1], p[2][k])])
VSubScalar(v, c) ==
    With(<<v, c>>, LAMBDA p : [k \in 1..Len(p[1]) |-> RSub(p[1][k], p[2])])
VDivScalar(v, c) ==
    With(<<v, c>>, LAMBDA p : [k \in 1..Len(p[1]) |-> RDiv(p[1][k], p[2])])
VZeros(n) == [k \in 1..n |-> Zero]

RECURSIVE SumTo(_, _)
SumTo(v, k) == IF k = 0 THEN Zero ELSE RAdd(SumTo(v, k - 1), v[k])

\* np.sum
VSum(v) == With(v, LAMBDA w : SumTo(w, Len(w)))

\* np.dot of two vectors
Dot(u, v) == VSum(VMul(u, v))

NonNegative(v) == \A k \in 1..Len(v) : IsFinite(v[k]) /\ v[k][1] >= 0
IsShareVector(v) == NonNegative(v) /\ VSum(v) = One

---------------------------------------------------------------------------
(* src/src/model.py *)

\* A params["g"]: a vector, or a callable like g_time of
\* nuclear_phaseout_scenario, which switches vectors at a threshold.
StaticG(v) == [callable |-> FALSE, v |-> v, T |-> Zero, after |-> v]
TimedG(v, T, w) == [callable |-> TRUE, v |-> v, T |-> T, after |-> w]

\* g_time(t): the vector before the threshold, the other one from it on
g_time(g, tt) == IF RLt(tt, g.T) THEN g.v ELSE g.after

\* g(0.0): the callable asked about time 0 whatever t is
ResolveGAtZero(g, tt) == IF g.callable THEN g_time(g, Zero) ELSE g.v

\* lines 42-45: g is called with t when it is callable, used as is otherwise
ResolveG(g, tt) == IF g.callable THEN g_time(g, tt) ELSE g.v

\* np.mean(R * g): the unweighted mean fitness
PhiUnweighted(xs, R, g) == RDiv(VSum(VMul(R, g)), Whole(Len(xs)))

\* np.dot(x, R): g left out
PhiForgetG(xs, R, g) == Dot(xs, R)

\* line 47: Phi = np.dot(x, R * g)
Phi(xs, R, g) == Dot(xs, VMul(R, g))

\* x * R * g - Phi: the parentheses of line 48 left out
replicator_rhs_noparen(tt, xs, ps) ==
    LET R == ps.R
        g == ResolveG(ps.g, tt)
    IN  VSubScalar(VMul(xs, VMul(R, g)), Phi(xs, R, g))

\* lines 39-50
replicator_rhs(tt, xs, ps) ==
    LET R == ps.R
        g == ResolveG(ps.g, tt)
    IN  VMul(xs, VSubScalar(VMul(R, g), Phi(xs, R, g)))

---------------------------------------------------------------------------
(* The dynamics functions handed to rk4_step and integrate *)

Dyn(kind, c) == [kind |-> kind, c |-> c]

\* f(t, x, params): the derivative it returns
Apply(fn, tt, xs, ps) ==
    CASE fn.kind = "replicator_rhs" -> replicator_rhs(tt, xs, ps)
      [] fn.kind = "zeros" -> VZeros(Len(xs))        \* np.zeros_like(x)
      [] fn.kind = "decay" -> VScale(Whole(-1), xs)  \* -x
      [] fn.kind = "const" -> fn.c                   \* np.array(c)
      [] fn.kind = "halve_inplace" -> VZeros(Len(xs))

\* what f leaves in the array it was handed: halve_inplace is
\*   def f(t, x, params): x *= 0.5; return np.zeros_like(x)
\* the others do not write to their argument
ArgAfter(fn, xs) ==
    IF fn.kind = "halve_inplace" THEN VScale(Rat(1, 2), xs) ELSE xs

---------------------------------------------------------------------------
(* src/src/solver.py *)

Half == Rat(1, 2)
Sixth == Rat(1, 6)

\* forward Euler instead of the four stages: x + dt * f(t, x)
rk4_step_euler(fn, tt, xs, h, ps) ==
    [ret |-> VAdd(ArgAfter(fn, xs), VScale(h, Apply(fn, tt, xs, ps))),
     arg |-> ArgAfter(fn, xs)]

\* lines 29-34.  ret is the returned array, arg what the array passed as x
\* holds afterwards (x is handed to f as it is for k1; the other stages get
\* temporaries).
rk4_step(fn, tt, xs, h, ps) ==
    LET xa == ArgAfter(fn, xs)
        two == Whole(2)
        h2 == RMul(Half, h)
    IN  With(Apply(fn, tt, xs, ps), LAMBDA k1 :
        With(Apply(fn, RAdd(tt, h2), VAdd(xa, VScale(h2, k1)), ps), LAMBDA k2 :
        With(Apply(fn, RAdd(tt, h2), VAdd(xa, VScale(h2, k2)), ps), LAMBDA k3 :
        With(Apply(fn, RAdd(tt, h), VAdd(xa, VScale(h, k3)), ps), LAMBDA k4 :
            [ret |-> VAdd(xa, VScale(RMul(h, Sixth),
                         VAdd(VAdd(k1, VScale(two, k2)), VAdd(VScale(two, k3), k4)))),
             arg |-> xa]))))

\* line 85: np.maximum(x, 0.0); NaN stays NaN
Clamp(v) ==
    With(v, LAMBDA w : [k \in 1..Len(w) |-> IF w[k][1] < 0 THEN Zero ELSE w[k]])

\* line 86: x / np.sum(x)
Normalize(v) == With(v, LAMBDA w : VDivScalar(w, VSum(w)))

\* Inputs, in tenths, for which the double-precision quotient
\* ((t_end + dt) - t0) / dt of np.arange lands above the whole number the
\* exact quotient is, so that its ceil is one more: <<10*t0, 10*t_end, 10*dt>>
DoubleRoundsUp ==
    { <<0, 2, 1>>, <<0, 4, 2>>, <<0, 11, 1>>, <<1, 1, 2>>, <<1, 1, 3>>,
      <<1, 2, 1>>, <<1, 3, 1>>, <<1, 3, -2>>, <<2, 0, -1>>, <<2, 2, 1>>,
      <<2, 3, -1>>, <<2, 4, 2>>, <<2, 5, 3>>, <<2, 6, 2>>, <<2, 8, 3>>,
      <<2, 11, 1>>, <<2, 11, 3>> }

Tenths(a) == Rat(a, 10)

\* len(np.arange(t0, t_end + dt, dt)): ceil((stop - start)/step) as the
\* doubles compute it, never negative
ArangeLen(start, tend, step) ==
    LET q == RDiv(RSub(RAdd(tend, step), start), step)
        up == \E e \in DoubleRoundsUp :
                 start = Tenths(e[1]) /\ tend = Tenths(e[2]) /\ step = Tenths(e[3])
        n == Ceil(q) + (IF up THEN 1 ELSE 0)
    IN  IF n < 0 THEN 0 ELSE n

\* np.arange(t0, t_end, dt): the stop one step short
ArangeShort(start, tend, step) ==
    LET n == Ceil(RDiv(RSub(tend, start), step))
    IN  [k \in 1..(IF n < 0 THEN 0 ELSE n) |-> RAdd(start, RMul(Whole(k - 1), step))]

\* line 75: np.arange(t0, t_end + dt, dt), step # 0
Arange(start, tend, step) ==
    [k \in 1..ArangeLen(start, tend, step) |-> RAdd(start, RMul(Whole(k - 1), step))]

\* x = x0: no copy, the local is the caller's array
NoCopy(arr) == [val |-> arr, alias |-> TRUE]

\* a corrected copy: clamped and renormalized
CorrectedCopy(arr) == [val |-> Normalize(Clamp(arr)), alias |-> FALSE]

\* line 78: x0.copy(), a new array with the same contents
Copy(arr) == [val |-> arr, alias |-> FALSE]

NoResult == <<>>

\* the exception swallowed and an empty trajectory handed back
EmptyOnRaise == <<<<>>, <<>>>>

\* an exception leaves integrate: nothing is returned
OnRaise == NoResult

\* the correction in the other order: renormalized, then clamped
NormalizeThenClamp(v) == Clamp(Normalize(v))

\* lines 85-86: clamped to >= 0, then divided by the sum
Correct(v) == Normalize(Clamp(v))

\* for i in range(len(t_values) - 1): no step at the last grid point
LoopStopsEarly(k, n) == k < n

\* line 80: enumerate(t_values) visits every grid point; k is 1-based
LoopContinues(k, n) == k <= n

\* no call suspended
NoContext == [live |-> FALSE]

---------------------------------------------------------------------------
(* The calls made: integrate(f, x0, t0, t_end, dt, params[, validate=...]) *)

MaxTEnd == 3

Vec2(a, b, d) == <<Rat(a, d), Rat(b, d)>>

EmptyParams == [R |-> <<>>, g |-> StaticG(<<>>)]

\* x0 arrays: share vectors, the [0.3, 0.3] of test_validation_can_be_disabled,
\* and one with a negative entry
ShareX0 == {Vec2(1, 1, 2), Vec2(1, 0, 1), Vec2(0, 1, 1), Vec2(1, 4, 5)}
OtherX0 == {Vec2(3, 3, 10), Vec2(-1, 6, 5)}

\* integrate takes any callable f(t, x, params).  zeros, decay and a constant
\* derivative are the dynamics of tests/test_solver.py; the constants that
\* push every share down, and the callable writing to its argument, are
\* further callables a caller may hand in.
PlainDynamics ==
    {Dyn("zeros", <<>>), Dyn("decay", <<>>), Dyn("halve_inplace", <<>>),
     Dyn("const", Vec2(1, 0, 1)), Dyn("const", Vec2(-10, -10, 1)),
     Dyn("const", Vec2(-10, 5, 1))}

\* parameter bundles for replicator_rhs: uniform fitness, one technology
\* fitter than the other, a shrinking technology (a negative growth rate,
\* like nuclear's after the phase-out), and a growth vector that switches
\* at t = 0.2
ReplicatorParams ==
    {[R |-> Vec2(1, 1, 1), g |-> StaticG(Vec2(1, 1, 1))],
     [R |-> Vec2(2, 1, 1), g |-> StaticG(Vec2(1, 2, 1))],
     [R |-> Vec2(2, 1, 1), g |-> StaticG(Vec2(20, 0, 1))],
     [R |-> Vec2(1, 1, 1), g |-> StaticG(Vec2(0, 40, 1))],
     [R |-> Vec2(1, 1, 1), g |-> StaticG(Vec2(0, -40, 1))],
     [R |-> Vec2(2, 1, 1), g |-> TimedG(Vec2(20, 0, 1), Tenths(2), Vec2(0, 40, 1))]}

\* x0 arrays handed in with replicator_rhs: share vectors, and the all-zero
\* array, which integrate takes like any other
ReplicatorX0 == {Vec2(1, 1, 2), Vec2(1, 0, 1), Vec2(0, 1, 1), Vec2(0, 0, 1)}

Times ==
    {<<Tenths(a), Tenths(e), Tenths(d)>> :
        a \in {0, 1}, e \in 0..MaxTEnd, d \in {-1, 0, 1, 2}}

Calls ==
    {[f |-> fn, x0 |-> v, params |-> EmptyParams] :
        fn \in PlainDynamics, v \in ShareX0 \cup OtherX0}
    \cup
    {[f |-> Dyn("replicator_rhs", <<>>), x0 |-> v, params |-> ps] :
        v \in ReplicatorX0, ps \in ReplicatorParams}

Init ==
    /\ pc = "call"
    /\ \E c \in Calls :
          /\ f = c.f
          /\ x0 = c.x0
          /\ x0_call = c.x0
          /\ params = c.params
    /\ \E tm \in Times : t0 = tm[1] /\ t_end = tm[2] /\ dt = tm[3]
    /\ validate \in {"absent", "True", "False"}
    /\ t_values = <<>>
    /\ x_values = <<>>
    /\ x = <<>>
    /\ x_alias = FALSE
    /\ i = 0
    /\ fevals = 0
    /\ exc = "none"
    /\ result = NoResult
    /\ t = Zero
    /\ dxdt = <<>>
    /\ x_next = <<>>
    /\ other = NoContext
    /\ started = 1

---------------------------------------------------------------------------
(* integrate, src/src/solver.py lines 37-88 *)

\* line 37: the signature is (f, x0, t0, t_end, dt, params)
BindArguments ==
    /\ pc = "call"
    /\ validate = "absent"
    /\ pc' = "grid"
    /\ UNCHANGED <<f, x0, x0_call, t0, t_end, dt, params, validate, t_values,
                   x_values, x, x_alias, i, fevals, exc, result, t, dxdt,
                   x_next, other, started>>

\* line 37: there is no parameter validate; passing the keyword is a TypeError
UnexpectedKeyword ==
    /\ pc = "call"
    /\ validate # "absent"
    /\ pc' = "raised"
    /\ exc' = "TypeError"
    /\ result' = OnRaise
    /\ UNCHANGED <<f, x0, x0_call, t0, t_end, dt, params, validate, t_values,
                   x_values, x, x_alias, i, fevals, t, dxdt,
                   x_next, other, started>>

\* lines 75-76: the time grid and the zeroed trajectory
BuildGrid ==
    /\ pc = "grid"
    /\ dt # Zero
    /\ t_values' = Arange(t0, t_end, dt)
    /\ x_values' = [k \in 1..Len(t_values') |-> VZeros(Len(x0))]
    /\ pc' = "copy"
    /\ UNCHANGED <<f, x0, x0_call, t0, t_end, dt, params, validate,
                   x, x_alias, i, fevals, exc, result, t, dxdt,
                   x_next, other, started>>

\* line 75: np.arange divides by the step; a zero step raises
ZeroStep ==
    /\ pc = "grid"
    /\ dt = Zero
    /\ pc' = "raised"
    /\ exc' = "ZeroDivisionError"
    /\ result' = OnRaise
    /\ UNCHANGED <<f, x0, x0_call, t0, t_end, dt, params, validate, t_values,
                   x_values, x, x_alias, i, fevals, t, dxdt,
                   x_next, other, started>>

\* line 78
CopyInitial ==
    /\ pc = "copy"
    /\ x' = Copy(x0).val
    /\ x_alias' = Copy(x0).alias
    /\ i' = 1
    /\ pc' = "loop"
    /\ UNCHANGED <<f, x0, x0_call, t0, t_end, dt, params, validate, t_values,
                   x_values, fevals, exc, result, t, dxdt,
                   x_next, other, started>>

\* lines 80-86: one pass of the loop body
LoopBody ==
    /\ pc = "loop"
    /\ LoopContinues(i, Len(t_values))
    /\ LET step == rk4_step(f, t_values[i], x, dt, params)
       IN  /\ t' = t_values[i]
           /\ x_values' = [x_values EXCEPT ![i] = x]
           /\ x0' = IF x_alias THEN step.arg ELSE x0
           /\ x_next' = step.ret
           /\ x' = Correct(x_next')
    /\ x_alias' = FALSE
    /\ fevals' = fevals + 4
    /\ i' = i + 1
    /\ UNCHANGED <<pc, f, x0_call, t0, t_end, dt, params, validate, t_values,
                   exc, result, dxdt, other, started>>

\* line 88
Return ==
    /\ pc = "loop"
    /\ ~LoopContinues(i, Len(t_values))
    /\ result' = <<t_values, x_values>>
    /\ pc' = "done"
    /\ UNCHANGED <<f, x0, x0_call, t0, t_end, dt, params, validate, t_values,
                   x_values, x, x_alias, i, fevals, exc, t, dxdt,
                   x_next, other, started>>

Next ==
    \/ BindArguments
    \/ UnexpectedKeyword
    \/ BuildGrid
    \/ ZeroStep
    \/ CopyInitial
    \/ LoopBody
    \/ Return

Spec == Init /\ [][Next]_vars

\* the interpreter keeps running the call: a step that can be taken is taken
SpecLive == Init /\ [][Next]_vars /\ WF_vars(Next)

---------------------------------------------------------------------------
(* replicator_rhs on its own: one evaluation per behaviour *)

Vec3(a, b, c, d) == <<Rat(a, d), Rat(b, d), Rat(c, d)>>

RhsX ==
    {Vec2(1, 1, 2), Vec2(1, 0, 1), Vec2(0, 1, 1), Vec2(1, 3, 4), Vec2(3, 3, 10),
     Vec2(0, 3, 10), Vec2(-1, 3, 2), Vec2(1, 1, 1),
     Vec3(0, 1, 1, 2), Vec3(1, 1, 2, 4), Vec3(0, 0, 1, 1), Vec3(1, 0, 1, 1),
     Vec3(2, 3, 5, 10), Vec3(1, 1, 1, 5)}

RhsVectors(n) ==
    IF n = 2
    THEN {Vec2(1, 1, 1), Vec2(2, 1, 1), Vec2(1, 2, 1), Vec2(3, -1, 2), Vec2(0, 0, 1)}
    ELSE {Vec3(1, 1, 1, 1), Vec3(2, 1, 4, 1), Vec3(2, 4, 1, 1), Vec3(1, -2, 0, 2)}

RhsParams(n) ==
    {[R |-> R, g |-> StaticG(v)] : R \in RhsVectors(n), v \in RhsVectors(n)}
    \cup
    {[R |-> R, g |-> TimedG(v, One, w)] :
        R \in RhsVectors(n), v \in {VZeros(n)}, w \in RhsVectors(n)}

RhsTimes == {Zero, Rat(1, 2), One, Whole(2)}

InitRhs ==
    /\ pc = "rhs_call"
    /\ x \in RhsX
    /\ params \in RhsParams(Len(x))
    /\ t \in RhsTimes
    /\ dxdt = <<>>
    /\ f = Dyn("replicator_rhs", <<>>)
    /\ x0 = <<>> /\ x0_call = <<>>
    /\ t0 = Zero /\ t_end = Zero /\ dt = Zero
    /\ validate = "absent"
    /\ t_values = <<>> /\ x_values = <<>>
    /\ x_alias = FALSE /\ i = 0 /\ fevals = 0
    /\ exc = "none" /\ result = NoResult
    /\ x_next = <<>> /\ other = NoContext /\ started = 0

\* src/src/model.py lines 39-50
EvalRhs ==
    /\ pc = "rhs_call"
    /\ dxdt' = replicator_rhs(t, x, params)
    /\ fevals' = fevals + 1
    /\ pc' = "rhs_done"
    /\ UNCHANGED <<f, x0, x0_call, t0, t_end, dt, params, validate, t_values,
                   x_values, x, x_alias, i, exc, result, t, x_next, other,
                   started>>

NextRhs == EvalRhs

SpecRhs == InitRhs /\ [][NextRhs]_vars

---------------------------------------------------------------------------
(* rk4_step called on its own: rk4_step(f, t, x, dt, params) *)

\* step sizes, in tenths: tests/test_solver.py steps by 0.1; rk4_step itself
\* takes any dt
Rk4Steps == {Tenths(d) : d \in {-1, 0, 1, 2}}

InitRk4 ==
    /\ pc = "rk4_call"
    /\ \E c \in Calls :
          /\ f = c.f
          /\ x = c.x0
          /\ x0_call = c.x0
          /\ params = c.params
    /\ t \in {Zero, Tenths(1)}
    /\ dt \in Rk4Steps
    /\ x0 = <<>>
    /\ t0 = Zero /\ t_end = Zero
    /\ validate = "absent"
    /\ t_values = <<>> /\ x_values = <<>>
    /\ x_alias = FALSE /\ i = 0 /\ fevals = 0
    /\ exc = "none" /\ result = NoResult
    /\ dxdt = <<>>
    /\ x_next = <<>> /\ other = NoContext /\ started = 0

\* src/src/solver.py lines 29-34.  x is the caller's array: afterwards it
\* holds what the four calls of f left in it; x0_call keeps what it held
\* when rk4_step was called.
EvalRk4 ==
    /\ pc = "rk4_call"
    /\ LET step == rk4_step(f, t, x, dt, params)
       IN  /\ x_next' = step.ret
           /\ x' = step.arg
    /\ fevals' = fevals + 4
    /\ pc' = "rk4_done"
    /\ UNCHANGED <<f, x0, x0_call, t0, t_end, dt, params, validate, t_values,
                   x_values, x_alias, i, exc, result, t, dxdt, other, started>>

NextRk4 == EvalRk4

SpecRk4 == InitRk4 /\ [][NextRk4]_vars

---------------------------------------------------------------------------
(* Calls sharing the module-level x0_spain of src/src/simulations.py, made
   from two threads of one interpreter: the variables of integrate above
   are those of the call that is running, other holds the call of the other
   thread, and Switch hands the interpreter from one to the other between
   any two steps.  The array x0 is the one object both calls were handed. *)

MaxCalls == 4

\* line 57, for two technologies
x0_spain == Vec2(1, 1, 2)

\* integrate(replicator_rhs, x0_spain, 0.0, 100.0, 0.1, params), scaled to a
\* grid of four points
ScenarioTimes == <<Zero, Tenths(4), Tenths(2)>>

baseline_scenario ==
    [f |-> Dyn("replicator_rhs", <<>>),
     params |-> [R |-> Vec2(1, 1, 1), g |-> StaticG(Vec2(0, 40, 1))]]

renewable_policy_scenario ==
    [f |-> Dyn("replicator_rhs", <<>>),
     params |-> [R |-> Vec2(2, 1, 1), g |-> StaticG(Vec2(20, 0, 1))]]

nuclear_phaseout_scenario ==
    [f |-> Dyn("replicator_rhs", <<>>),
     params |-> [R |-> Vec2(2, 1, 1),
                 g |-> TimedG(Vec2(20, 0, 1), Tenths(2), Vec2(0, 40, 1))]]

\* the three scenarios, and a direct call of integrate on x0_spain with a
\* dynamics function that writes to the array it is handed
SharedCalls ==
    {baseline_scenario, renewable_policy_scenario, nuclear_phaseout_scenario,
     [f |-> Dyn("halve_inplace", <<>>), params |-> EmptyParams]}

\* the frame of a call that has just been made with the shared array
NewCall(c) ==
    [live |-> TRUE, pc |-> "call", f |-> c.f, params |-> c.params,
     x0_call |-> x0, t0 |-> ScenarioTimes[1], t_end |-> ScenarioTimes[2],
     dt |-> ScenarioTimes[3], validate |-> "absent", t_values |-> <<>>,
     x_values |-> <<>>, x |-> <<>>, x_alias |-> FALSE, i |-> 0, fevals |-> 0,
     exc |-> "none", result |-> NoResult, t |-> Zero, x_next |-> <<>>]

\* the frame of the running call
Frame ==
    [live |-> TRUE, pc |-> pc, f |-> f, params |-> params,
     x0_call |-> x0_call, t0 |-> t0, t_end |-> t_end, dt |-> dt,
     validate |-> validate, t_values |-> t_values, x_values |-> x_values,
     x |-> x, x_alias |-> x_alias, i |-> i, fevals |-> fevals, exc |-> exc,
     result |-> result, t |-> t, x_next |-> x_next]

\* the running call becomes the call whose frame is fr
Resume(fr) ==
    /\ pc' = fr.pc /\ f' = fr.f /\ params' = fr.params
    /\ x0_call' = fr.x0_call /\ t0' = fr.t0 /\ t_end' = fr.t_end /\ dt' = fr.dt
    /\ validate' = fr.validate /\ t_values' = fr.t_values
    /\ x_values' = fr.x_values /\ x' = fr.x /\ x_alias' = fr.x_alias
    /\ i' = fr.i /\ fevals' = fr.fevals /\ exc' = fr.exc
    /\ result' = fr.result /\ t' = fr.t /\ x_next' = fr.x_next

InitCalls ==
    /\ x0 = x0_spain
    /\ dxdt = <<>>
    /\ started = 2
    /\ \E c1 \in SharedCalls, c2 \in SharedCalls :
          /\ pc = "call" /\ f = c1.f /\ params = c1.params
          /\ other = NewCall(c2)
    /\ x0_call = x0_spain
    /\ t0 = ScenarioTimes[1] /\ t_end = ScenarioTimes[2] /\ dt = ScenarioTimes[3]
    /\ validate = "absent"
    /\ t_values = <<>> /\ x_values = <<>> /\ x = <<>>
    /\ x_alias = FALSE /\ i = 0 /\ fevals = 0
    /\ exc = "none" /\ result = NoResult
    /\ t = Zero /\ x_next = <<>>

\* the interpreter switches threads: the running call is suspended where it
\* is, the other one goes on; the array x0 belongs to neither frame
Switch ==
    /\ other.live
    /\ other' = Frame
    /\ Resume(other)
    /\ UNCHANGED <<x0, dxdt, started>>

\* the running thread, its call returned, makes its next call with the
\* same array (simulations.py lines 66, 76, 94)
StartCall ==
    /\ pc = "done"
    /\ started < MaxCalls
    /\ \E c \in SharedCalls : Resume(NewCall(c))
    /\ started' = started + 1
    /\ UNCHANGED <<x0, dxdt, other>>

NextCalls ==
    \/ BindArguments
    \/ BuildGrid
    \/ CopyInitial
    \/ LoopBody
    \/ Return
    \/ Switch
    \/ StartCall

SpecCalls == InitCalls /\ [][NextCalls]_vars

---------------------------------------------------------------------------
(* Properties *)

Positive(a) == RLt(Zero, a)

\* rows of x_values written so far
Recorded == IF pc = "done" THEN Len(x_values) ELSE IF pc = "loop" THEN i - 1 ELSE 0

\* the preconditions the tests of validate_inputs name
InvalidInputs ==
    \/ RLe(dt, Zero)
    \/ RLe(t_end, t0)
    \/ \E k \in 1..Len(x0_call) : x0_call[k][1] < 0
    \/ VSum(x0_call) # One

PointsFromEnd == {k \in 1..Len(t_values) : RLe(t_end, t_values[k])}

GridIsRegular ==
    /\ Len(t_values) >= 1
    /\ t_values[1] = t0
    /\ \A k \in 1..(Len(t_values) - 1) : RSub(t_values[k + 1], t_values[k]) = dt
    /\ Len(t_values) = Len(x_values)

Fitness == VMul(params.R, ResolveG(params.g, t))

UniformFitness == \A j, k \in 1..Len(x) : Fitness[j] = Fitness[k]

\* C1: from an x0 that is non-negative and sums to 1, every sample of the
\* trajectory is non-negative and sums to 1, as soon as it is recorded: the
\* first one and the one left by each single step.
C1_EverySampleIsShareVector ==
    (/\ pc \in {"loop", "done"}
     /\ IsShareVector(x0_call) /\ Positive(dt) /\ RLt(t0, t_end)) =>
        \A k \in 1..Recorded : IsShareVector(x_values[k])

\* C2: the first sample of the returned trajectory is the caller's x0, entry
\* for entry, neither clamped nor renormalized, also when x0 is not
\* normalized.
C2_FirstSampleIsX0 ==
    (Recorded >= 1) => x_values[1] = x0_call

C2_Witness ==
    /\ pc = "done"
    /\ x0_call = Vec2(3, 3, 10)
    /\ Len(result[2]) >= 2
    /\ result[2][1] = x0_call
    /\ result[2][2] = Vec2(1, 1, 2)

\* C3: with validation on (no validate argument, or validate=True) the call
\* ends in ValueError exactly when dt <= 0, or t_end <= t0, or x0 has a
\* negative entry, or x0 does not sum to 1.
C3_InvalidInputsRaiseValueError ==
    (pc \in {"done", "raised"} /\ validate \in {"absent", "True"}) =>
        (InvalidInputs <=> exc = "ValueError")

\* C4: for an x0 that does not sum to 1 (and a valid grid), validate=True
\* raises ValueError, and validate=False completes without raising and
\* returns a non-empty trajectory.
C4_ValidationIsGated ==
    (/\ pc \in {"done", "raised"}
     /\ VSum(x0_call) # One /\ Positive(dt) /\ RLt(t0, t_end)) =>
        /\ validate = "True" => exc = "ValueError"
        /\ validate = "False" => (pc = "done" /\ exc = "none" /\ Len(result[1]) > 0)

\* C5: when the call raises, f has not been evaluated, no step has been
\* taken, no sample recorded and nothing is returned.
C5_RejectionBeforeAnyWork ==
    (pc = "raised") =>
        /\ fevals = 0
        /\ i = 0
        /\ x_values = <<>>
        /\ result = NoResult

C5_Witness ==
    /\ pc = "raised"
    /\ exc = "ZeroDivisionError"
    /\ dt = Zero
    /\ validate = "absent"

\* C6: the caller's x0 array holds the values it had when the call was made,
\* at every point of the call and after it returns, whatever f does.
C6_CallerArrayUntouched == x0 = x0_call

C6_Witness ==
    /\ pc = "done"
    /\ f.kind = "halve_inplace"
    /\ fevals >= 8
    /\ x0_call = Vec2(3, 3, 10)
    /\ x0 = x0_call
    /\ result[2][2] # x0_call

\* C7 as stated: for dt > 0 and t_end > t0 the grid starts at t0, advances
\* by dt, holds exactly one point >= t_end, its last time is >= t_end - dt
\* and < t_end + dt, and there is one row per time.
C7_ExactlyOnePointFromEnd ==
    (pc = "done" /\ Positive(dt) /\ RLt(t0, t_end)) =>
        /\ GridIsRegular
        /\ Cardinality(PointsFromEnd) = 1
        /\ RLe(RSub(t_end, dt), t_values[Len(t_values)])
        /\ RLt(t_values[Len(t_values)], RAdd(t_end, dt))

\* C7 amended: for dt > 0 and t_end > t0 the grid starts at t0, advances by
\* dt, holds one or two points >= t_end (two when the rounding of the
\* length lets the point t_end + dt in), its last time is >= t_end - dt and
\* <= t_end + dt, and there is one row per time.
C7_OneOrTwoPointsFromEnd ==
    (pc = "done" /\ Positive(dt) /\ RLt(t0, t_end)) =>
        /\ GridIsRegular
        /\ Cardinality(PointsFromEnd) \in {1, 2}
        /\ RLe(RSub(t_end, dt), t_values[Len(t_values)])
        /\ RLe(t_values[Len(t_values)], RAdd(t_end, dt))

C7_Witness ==
    /\ pc = "done"
    /\ t0 = Zero /\ t_end = Tenths(2) /\ dt = Tenths(1)
    /\ result[1] = <<Zero, Tenths(1), Tenths(2), Tenths(3)>>
    /\ Len(result[2]) = 4

\* C8: for a share vector x (entries >= 0, sum 1) the entries of
\* replicator_rhs(t, x, params) sum to 0.
C8_Conservation ==
    (pc = "rhs_done" /\ IsShareVector(x)) => VSum(dxdt) = Zero

C8_Witness ==
    /\ pc = "rhs_done"
    /\ IsShareVector(x)
    /\ params.g.callable
    /\ \E k \in 1..Len(x) : dxdt[k][1] > 0
    /\ VSum(dxdt) = Zero

\* C9: an entry of x that is 0 has derivative 0, whatever the other entries.
C9_ZeroShareHasZeroDerivative ==
    (pc = "rhs_done") => \A k \in 1..Len(x) : x[k] = Zero => dxdt[k] = Zero

C9_Witness ==
    /\ pc = "rhs_done"
    /\ ~IsShareVector(x)
    /\ \E k \in 1..Len(x) : x[k] = Zero /\ Fitness[k] # Phi(x, params.R, ResolveG(params.g, t))
    /\ \E k \in 1..Len(x) : dxdt[k] # Zero

\* C10 as stated: when R_i * g_i is the same for every i, replicator_rhs
\* returns the zero vector for every x.
C10_UniformFitnessZeroForAllX ==
    (pc = "rhs_done" /\ UniformFitness) => dxdt = VZeros(Len(x))

\* C10 amended: when R_i * g_i is the same constant c for every i, entry i
\* of replicator_rhs is x_i * c * (1 - sum(x)); it is the zero vector for
\* every x whose entries sum to 1.
C10_UniformFitnessZeroOnSimplex ==
    (pc = "rhs_done" /\ UniformFitness) =>
        /\ \A k \in 1..Len(x) :
              dxdt[k] = RMul(x[k], RMul(Fitness[1], RSub(One, VSum(x))))
        /\ VSum(x) = One => dxdt = VZeros(Len(x))

C10_Witness ==
    /\ pc = "rhs_done"
    /\ UniformFitness
    /\ params.R[1] # params.R[2]
    /\ Fitness[1] # Zero
    /\ VSum(x) = One
    /\ \A k \in 1..Len(x) : x[k] # Zero
    /\ dxdt = VZeros(Len(x))

\* the array rk4_step returns when called on row k of the trajectory
StepFrom(k) == rk4_step(f, t_values[k], x_values[k], dt, params).ret

\* C12: row k of x_values is the state before the step taken at t_values[k];
\* the next row is that state advanced by one rk4_step, then clamped to
\* >= 0, and only then divided by its sum; and the local x the loop holds is
\* the last recorded row corrected in the same way.
C12_RecordStepClampNormalize ==
    (pc \in {"loop", "done"}) =>
        /\ \A k \in 1..(Recorded - 1) :
              x_values[k + 1] = Normalize(Clamp(StepFrom(k)))
        /\ (pc = "loop" /\ Recorded >= 1) =>
              /\ x_next = StepFrom(Recorded)
              /\ x = Normalize(Clamp(x_next))

\* a step went below zero, and clamping before dividing made the next row
\* a share vector with a zero entry
C12_Witness ==
    /\ pc = "done"
    /\ \E k \in 1..(Recorded - 1) :
          /\ \E j \in 1..Len(x0_call) :
                StepFrom(k)[j][1] < 0 /\ x_values[k + 1][j] = Zero
          /\ VSum(StepFrom(k)) # One
          /\ IsShareVector(x_values[k + 1])
          /\ x_values[k + 1] # Clamp(Normalize(StepFrom(k)))

\* f does not write to the array it is handed
LeavesArgument == ArgAfter(f, x0_call) = x0_call

RhsWith(gv) ==
    [k \in 1..Len(x) |->
        RMul(x[k], RSub(RMul(params.R[k], gv[k]), Dot(x, VMul(params.R, gv))))]

\* C14: a callable params["g"] is asked about the current time t and the
\* result is the one the static vector g(t) gives: the vector before the
\* threshold for t < T, the vector after it for t >= T; a g that is not
\* callable is used as it is, and the result is the same at every t.
C14_GrowthRateResolution ==
    (pc = "rhs_done") =>
        LET g == params.g
        IN  /\ (g.callable /\ RLt(t, g.T)) =>
                  /\ dxdt = RhsWith(g.v)
                  /\ dxdt = replicator_rhs(t, x, [R |-> params.R, g |-> StaticG(g.v)])
            /\ (g.callable /\ RLe(g.T, t)) =>
                  /\ dxdt = RhsWith(g.after)
                  /\ dxdt = replicator_rhs(t, x, [R |-> params.R, g |-> StaticG(g.after)])
            /\ ~g.callable =>
                  /\ dxdt = RhsWith(g.v)
                  /\ \A tt \in RhsTimes : replicator_rhs(tt, x, params) = dxdt

\* a callable g evaluated at the threshold itself: the vector after the
\* threshold is in force, and it gives another derivative than the one
\* before
C14_Witness ==
    /\ pc = "rhs_done"
    /\ params.g.callable
    /\ t = params.g.T
    /\ dxdt = RhsWith(params.g.after)
    /\ dxdt # RhsWith(params.g.v)

\* the first stage of the step taken from row k: k1, and the state
\* x + dt/2 * k1 handed to the second stage
StageK1(k) == Apply(f, t_values[k], x_values[k], params)
StageState2(k) == VAdd(x_values[k], VScale(RMul(Half, dt), StageK1(k)))

\* C17: with replicator_rhs and an x0 that is non-negative and sums to 1,
\* every array rk4_step returns sums to 1 before it is clamped (the stage
\* derivative sums to 0 and the stage state to 1), so the clamped array sums
\* to at least 1 and the division by the sum is never a division by zero:
\* the corrected state is a share vector, never the all-zero array.
C17_NormalizationNeverDividesByZero ==
    (/\ pc \in {"loop", "done"}
     /\ f.kind = "replicator_rhs"
     /\ IsShareVector(x0_call)) =>
        /\ \A k \in 1..Recorded :
              /\ VSum(StageK1(k)) = Zero
              /\ VSum(StageState2(k)) = One
              /\ VSum(StepFrom(k)) = One
              /\ RLe(One, VSum(Clamp(StepFrom(k))))
        /\ Recorded >= 1 =>
              /\ VSum(x_next) = One
              /\ RLe(One, VSum(Clamp(x_next)))
              /\ VSum(Clamp(x_next)) # Zero
              /\ IsShareVector(x)

\* a step of the replicator dynamics that left the simplex: an entry below
\* zero, the sum still 1, the clamped sum above 1
C17_Witness ==
    /\ pc = "done"
    /\ f.kind = "replicator_rhs"
    /\ IsShareVector(x0_call)
    /\ Recorded >= 2
    /\ \E k \in 1..Recorded :
          /\ \E j \in 1..Len(x0_call) : StepFrom(k)[j][1] < 0
          /\ VSum(StepFrom(k)) = One
          /\ RLt(One, VSum(Clamp(StepFrom(k))))

\* entry j is 0 in some recorded row and 0 in every row after it
StaysZero ==
    \A k \in 1..Recorded : \A l \in (k + 1)..Recorded :
        \A j \in 1..Len(x0_call) :
            x_values[k][j] = Zero => x_values[l][j] = Zero

\* C16 as stated: when integrate is run with replicator_rhs, an entry that
\* is exactly 0 in some sample is exactly 0 in every later sample.
C16_ZeroStaysZero ==
    (pc \in {"loop", "done"} /\ f.kind = "replicator_rhs") => StaysZero

\* From an x0 that is non-negative and sums to 1 the same does hold: with
\* replicator_rhs an entry that is exactly 0 in some sample
\* (0 in x0, or driven to 0 by clamping) is exactly 0 in every later sample.
C16_ZeroStaysZeroFromShares ==
    (/\ pc \in {"loop", "done"}
     /\ f.kind = "replicator_rhs"
     /\ IsShareVector(x0_call)) => StaysZero

\* a share that was positive in x0, was clamped to 0, and stayed 0 through
\* a later step at whose time it was the fitter technology
C16_Witness ==
    /\ pc = "done"
    /\ f.kind = "replicator_rhs"
    /\ IsShareVector(x0_call)
    /\ \E j \in 1..Len(x0_call) : \E k \in 2..(Recorded - 1) :
          /\ x_values[1][j] # Zero
          /\ StepFrom(k - 1)[j][1] < 0
          /\ x_values[k][j] = Zero
          /\ x_values[k + 1][j] = Zero
          /\ LET fit == VMul(params.R, ResolveG(params.g, t_values[k]))
             IN  \A m \in 1..Len(x0_call) : m # j => RLt(fit[m], fit[j])

\* the call as the signature has it, with dt > 0 and t_end > t0
ForwardCall == validate = "absent" /\ Positive(dt) /\ RLt(t0, t_end)

\* C15: for dt > 0 and t_end > t0 integrate terminates and returns; by
\* then it has taken exactly one rk4_step (four calls of f) per grid point,
\* the number of grid points being fixed by t0, t_end and dt alone, whatever
\* f, x0 and params are; the step taken at the last grid point is computed
\* and its result is in no row of the trajectory.
C15_TerminatesAfterOneStepPerGridPoint ==
    ForwardCall ~>
        (/\ pc = "done"
         /\ exc = "none"
         /\ result = <<t_values, x_values>>
         /\ Len(t_values) = ArangeLen(t0, t_end, dt)
         /\ Len(x_values) = Len(t_values)
         /\ fevals = 4 * Len(t_values))

\* a returned call that stepped at each of its four or more grid points,
\* the last step changing the state it started from
C15_Witness ==
    /\ pc = "done"
    /\ ForwardCall
    /\ Len(t_values) >= 4
    /\ fevals = 4 * Len(t_values)
    /\ x_next # x_values[Len(x_values)]

\* the rows integrate records from row k on, the state at t_values[k]
\* being xs, when nothing else runs
RECURSIVE RowsFrom(_, _, _, _, _, _)
RowsFrom(fn, tv, h, ps, xs, k) ==
    IF k > Len(tv) THEN <<>>
    ELSE With(xs, LAMBDA v :
             <<v>> \o RowsFrom(fn, tv, h, ps,
                               Normalize(Clamp(rk4_step(fn, tv[k], v, h, ps).ret)),
                               k + 1))

\* what the call integrate(fn, xv, a, e, h, ps) returns when it runs alone
Alone(fn, xv, a, e, h, ps) ==
    With(Arange(a, e, h), LAMBDA tv : <<tv, RowsFrom(fn, tv, h, ps, xv, 1)>>)

\* C11: whatever the order and the interleaving of the calls made with
\* x0_spain, and however many were made, each call returns the trajectory it
\* returns when run alone, which its own arguments fix; and x0_spain keeps
\* its initial value throughout.
C11_CallsDoNotInterfere ==
    /\ x0 = x0_spain
    /\ pc = "done" =>
          result = Alone(f, x0_spain, t0, t_end, dt, params)
    /\ (other.live /\ other.pc = "done") =>
          other.result = Alone(other.f, x0_spain, other.t0, other.t_end,
                               other.dt, other.params)

\* a scenario returned while the call that writes to the array it is handed
\* is suspended in the middle of its loop, after a third call was made
C11_Witness ==
    /\ pc = "done"
    /\ f.kind = "replicator_rhs"
    /\ Len(result[2]) >= 3
    /\ result[2][2] # x0_spain
    /\ other.live
    /\ other.f.kind = "halve_inplace"
    /\ other.pc = "loop"
    /\ other.i >= 2
    /\ started = MaxCalls
    /\ x0 = x0_spain

====
